---- MODULE Spec2Model ----
(***************************************************************************)
(* The match / team / scoring request handlers of routes/api/matches.js    *)
(* and routes/api/teams.js as a state machine.                             *)
(*                                                                         *)
(* Every handler is an async function: it runs without interruption from   *)
(* one `await` to the next, and other requests run while it is suspended.  *)
(* Each action below is one such slice: the awaited database or bcrypt     *)
(* call completes and the synchronous code after it runs up to the next    *)
(* await (or up to the response).  A request's arrival is taken together   *)
(* with the completion of its first database read.                         *)
(*                                                                         *)
(* A document read by findOne is a private copy held by the request.       *)
(* save() on a copy writes the paths that the handler changed on it (an    *)
(* array changed by unshift/splice is written whole, a changed field of an *)
(* array element is written by position), to the stored document with the  *)
(* same _id if there still is one; no version is compared, the last write  *)
(* of a path wins.                                                         *)
(***************************************************************************)
EXTENDS Integers, Sequences, FiniteSets, TLC

\* ------------------------------------------------------------------ bounds
MaxReqs == 2
MaxMatches == 1
MaxTeams == 2
MaxResults == 2
MaxCalls == 3

Reqs == 1..MaxReqs
MatchIds == 1..MaxMatches
TeamIds == 1..MaxTeams
ResultIds == 1..MaxResults

Users == {"u1", "u2"}
Games == {"g1", "g2"}
GameIds == Games \cup {"g0"}
Secrets == {"s1", "s2"}
Salts == {1}
Items == {"dot", "Fruit", "GHOST", "pill"}

NoUser == "nobody"
NoGame == "nogame"
NoSecret == "nosecret"
NoHash == [salt |-> 0, digest |-> 0]

VARIABLES
  games,      \* Game collection: game id -> players, a list of [user, xp]
  matches,    \* Match collection: _id -> document
  teams,      \* Team collection: _id -> document
  results,    \* Result collection: _id -> document
  nextMatch,  \* the _id the next created Match gets
  nextTeam,   \* the _id the next created Team gets
  nextResult, \* the _id the next created Result gets
  req,        \* the requests in flight: slot -> handler position and locals
  calls,      \* the number of requests taken up so far that got past their first checks
  sent,       \* the response being sent and its request, NoResponse when none is
  verified    \* history: <<"match"|"team", _id, user>> whose join compared a secret successfully

vars == <<games, matches, teams, results, nextMatch, nextTeam, nextResult, req, calls, sent, verified>>
store == <<games, matches, teams, results>>

\* ------------------------------------------------------------------ helpers
\* helpers.isInArray: is there an entry of the embedded list whose user is id
isInArray(arr, id) == \E i \in 1..Len(arr) : arr[i].user = id

\* Array.prototype.unshift: the new element goes to the front
unshift(arr, x) == <<x>> \o arr

\* Array.prototype.findIndex / indexOf: the first position (from 0) that
\* satisfies the test, -1 when there is none
FirstIndex(hits) == IF hits = {} THEN -1 ELSE (CHOOSE i \in hits : \A j \in hits : i <= j) - 1
\* (a findIndex that falls back on the first position when no element passes)
findIndexOrFirst(players, playerId) ==
  IF \E i \in 1..Len(players) : players[i].user = playerId
    THEN FirstIndex({i \in 1..Len(players) : players[i].user = playerId})
    ELSE 0
findIndex(players, playerId) == FirstIndex({i \in 1..Len(players) : players[i].user = playerId})
indexOf(ids, id) == FirstIndex({i \in 1..Len(ids) : ids[i] = id})

\* Array.prototype.splice(start, 1): removes one element at start (from 0);
\* a negative start counts from the end of the array
splice(arr, start) ==
  LET n == Len(arr)
      s == IF start < 0 THEN (IF n + start < 0 THEN 0 ELSE n + start) ELSE start
  IN  [k \in 1..(IF s < n THEN n - 1 ELSE n) |-> IF k <= s THEN arr[k] ELSE arr[k + 1]]

\* String.prototype.toLowerCase on the item kinds the requests carry
toLowerCase(item) ==
  CASE item = "Fruit" -> "fruit"
    [] item = "GHOST" -> "ghost"
    [] OTHER -> item

\* the switch of recordPlay: the points of an item kind, 0 on the default branch
pointsOf(item) ==
  CASE toLowerCase(item) = "dot" -> 10
    [] toLowerCase(item) = "fruit" -> 50
    [] toLowerCase(item) = "ghost" -> 300
    [] OTHER -> 0
\* (a switch whose default branch does not return)
validItemNoDefault(item) == TRUE
\* the switch does not take its default branch, which answers 'Not a valid item'
validItem(item) == toLowerCase(item) \in {"dot", "fruit", "ghost"}

\* bcrypt.hash(secret, salt): the salt and a digest of secret under that salt;
\* bcrypt.compare(secret, hash) hashes secret with the salt kept in hash
SecretCode(secret) == CASE secret = "s1" -> 1 [] secret = "s2" -> 2 [] OTHER -> 0
bcryptHash(secret, salt) == [salt |-> salt, digest |-> (SecretCode(secret) * 3 + salt * 5) % 7]
bcryptCompare(secret, hash) == bcryptHash(secret, hash.salt) = hash

\* a collection with document doc stored under id, and without the document id
Put(coll, id, doc) == [x \in (DOMAIN coll) \cup {id} |-> IF x = id THEN doc ELSE coll[x]]
Del(coll, ids) == [x \in (DOMAIN coll) \ ids |-> coll[x]]
Empty == [x \in {} |-> 0]

\* the `players.<idx>.xp` path written on a stored list: the element at idx
\* (from 0) gets the xp; a list shorter than idx is padded with empty entries
NullEntry == [user |-> NoUser, xp |-> 0]
setXpAt(arr, idx, xp) ==
  [k \in 1..(IF idx + 1 > Len(arr) THEN idx + 1 ELSE Len(arr)) |->
     IF k = idx + 1
       THEN [user |-> (IF k <= Len(arr) THEN arr[k].user ELSE NoUser), xp |-> xp]
       ELSE IF k <= Len(arr) THEN arr[k] ELSE NullEntry]

\* ------------------------------------------------------------------ requests
Idle ==
  [pc |-> "idle", op |-> "none",
   user |-> NoUser, matchId |-> 0, gameId |-> NoGame, teamId |-> 0,
   secret |-> NoSecret, item |-> "", playerId |-> NoUser,
   players |-> <<>>, teams |-> <<>>, members |-> <<>>, roster |-> <<>>,
   hash |-> NoHash, game |-> NoGame, host |-> NoUser, result |-> 0,
   index |-> 0, i |-> 0, modified |-> FALSE]

\* the handler of slot r, which served the request q, sends its response and ends
NoResponse == [op |-> "none", resp |-> "none", q |-> Idle]
Respond(r, q, resp) ==
  /\ req' = [req EXCEPT ![r] = Idle]
  /\ sent' = [op |-> q.op, resp |-> resp, q |-> [Idle EXCEPT !.op = q.op, !.user = q.user,
                 !.matchId = q.matchId, !.gameId = q.gameId, !.teamId = q.teamId,
                 !.secret = q.secret, !.item = q.item, !.playerId = q.playerId]]
  /\ UNCHANGED calls
\* the handler of slot r goes on to its next await with the locals q
Await(r, q) ==
  /\ req' = [req EXCEPT ![r] = q]
  /\ sent' = NoResponse
  /\ calls' = IF req[r].pc = "idle" THEN calls + 1 ELSE calls
\* the first slice of a request: slot r is free, and so is no slot before it
Free(r) ==
  /\ sent = NoResponse
  /\ calls < MaxCalls
  /\ req[r].pc = "idle" /\ \A k \in Reqs : k < r => req[k].pc # "idle"
\* the handler of slot r is suspended at the await named at, and carries on
At(r, at) == sent = NoResponse /\ req[r].pc = at

\* The games and their rosters are made by routes that are not part of this
\* model; they are there from the start: g1 has u1 and u2, g2 has u2 alone.
InitGames ==
  [g \in Games |->
     IF g = "g1" THEN <<[user |-> "u1", xp |-> 0], [user |-> "u2", xp |-> 0]>>
                 ELSE <<[user |-> "u2", xp |-> 0]>>]

\* The store the server starts on: either no match yet, or the match that
\* createMatch by u1 for g1 with secret s1 and the joins of u1 and of u2 leave.
RunningMatch ==
  [host |-> "u1", game |-> "g1", teams |-> <<>>,
   players |-> <<[user |-> "u2", xp |-> 0], [user |-> "u1", xp |-> 0]>>,
   secret |-> [salt |-> 1, digest |-> 1], isCompleted |-> FALSE, result |-> 0]

Init ==
  /\ games = InitGames
  /\ \/ matches = Empty /\ nextMatch = 1 /\ verified = {}
     \/ /\ matches = Put(Empty, 1, RunningMatch)
        /\ nextMatch = 2
        /\ verified = {<<"match", 1, "u1">>, <<"match", 1, "u2">>}
  /\ teams = Empty
  /\ results = Empty
  /\ nextTeam = 1
  /\ nextResult = 1
  /\ req = [r \in Reqs |-> Idle]
  /\ calls = 0
  /\ sent = NoResponse

\* the requests of kind op that are suspended at one of the awaits in ats
InFlight(op, ats) == {k \in Reqs : req[k].op = op /\ req[k].pc \in ats}

\* save() of a document read earlier: whether the save of a document that is
\* no longer stored is reported as an error depends on the driver
SaveOutcomes(coll, id) == IF id \in DOMAIN coll THEN {"Ok"} ELSE {"Ok", "ServerError"}

\* ------------------------------------------------------------------ createMatch
\* POST api/matches: Game.findOne, the not-found and roster checks
CreateMatchFindGame(r) ==
  /\ Free(r)
  /\ nextMatch + Cardinality(InFlight("createMatch", {"cm_hash", "cm_save"})) <= MaxMatches
  /\ \E u \in Users, gameId \in GameIds, secret \in Secrets :
       LET q == [Idle EXCEPT !.op = "createMatch", !.user = u, !.gameId = gameId, !.secret = secret]
       IN  IF gameId \notin DOMAIN games
             THEN Respond(r, q, "NotFound")
           ELSE IF ~isInArray(games[gameId], u)
             THEN Respond(r, q, "Forbidden")
           ELSE Await(r, [q EXCEPT !.pc = "cm_hash"])
  /\ UNCHANGED <<store, nextMatch, nextTeam, nextResult, verified>>

\* bcrypt.genSalt and bcrypt.hash of the match's secret
CreateMatchHash(r) ==
  /\ At(r, "cm_hash")
  /\ \E salt \in Salts :
       Await(r, [req[r] EXCEPT !.pc = "cm_save", !.hash = bcryptHash(req[r].secret, salt)])
  /\ UNCHANGED <<store, nextMatch, nextTeam, nextResult, verified>>

\* new Match({name, host, game, secret}) as match.save() stores it
newMatch(host, game, hash) ==
  [host |-> host, game |-> game, teams |-> <<>>, players |-> <<>>,
   secret |-> hash, isCompleted |-> FALSE, result |-> 0]

\* match.save(): the new match is inserted
CreateMatchSave(r) ==
  /\ At(r, "cm_save")
  /\ matches' = Put(matches, nextMatch, newMatch(req[r].user, req[r].gameId, req[r].hash))
  /\ nextMatch' = nextMatch + 1
  /\ Respond(r, [req[r] EXCEPT !.matchId = nextMatch], "Ok")
  /\ UNCHANGED <<games, teams, results, nextTeam, nextResult, verified>>

\* ------------------------------------------------------------------ joinMatch
\* POST api/matches/:id: Match.findOne and the not-found check
JoinMatchFindMatch(r) ==
  /\ Free(r)
  /\ \E u \in Users, id \in MatchIds, secret \in Secrets :
       LET q == [Idle EXCEPT !.op = "joinMatch", !.user = u, !.matchId = id, !.secret = secret]
       IN  IF id \notin DOMAIN matches
             THEN Respond(r, q, "NotFound")
             ELSE Await(r, [q EXCEPT !.pc = "jm_game",
                                     !.players = matches[id].players,
                                     !.hash = matches[id].secret,
                                     !.game = matches[id].game])
  /\ UNCHANGED <<store, nextMatch, nextTeam, nextResult, verified>>

\* Game.findOne of the match's game, the roster check and the already-a-player check
JoinMatchFindGame(r) ==
  /\ At(r, "jm_game")
  /\ IF req[r].game \notin DOMAIN games
       THEN Respond(r, req[r], "ServerError")
     ELSE IF ~isInArray(games[req[r].game], req[r].user)
       THEN Respond(r, req[r], "Forbidden")
     ELSE IF isInArray(req[r].players, req[r].user)
       THEN Respond(r, req[r], "Conflict")
     ELSE Await(r, [req[r] EXCEPT !.pc = "jm_compare"])
  /\ UNCHANGED <<store, nextMatch, nextTeam, nextResult, verified>>

\* bcrypt.compare of the supplied secret with the match's hash, then the unshift
JoinMatchCompare(r) ==
  /\ At(r, "jm_compare")
  /\ IF ~bcryptCompare(req[r].secret, req[r].hash)
       THEN Respond(r, req[r], "Unauthorized")
       ELSE Await(r, [req[r] EXCEPT !.pc = "jm_save",
                        !.players = unshift(req[r].players, [user |-> req[r].user, xp |-> 0])])
  /\ UNCHANGED <<store, nextMatch, nextTeam, nextResult, verified>>

\* (a save that adds the new entry to the stored list unless the list has it)
joinMatchWriteAdd(m, players) ==
  [m EXCEPT !.players = IF isInArray(@, players[1].user) THEN @ ELSE unshift(@, players[1])]
\* (a save that pushed the new entry on the stored list in place of writing the
\* request's list)
joinMatchWritePush(m, players) == [m EXCEPT !.players = unshift(m.players, players[1])]

\* what match.save() of joinMatch writes on the stored match m: the players
\* path, whole, as the request's copy has it after the unshift
joinMatchWrite(m, players) == [m EXCEPT !.players = players]

\* match.save()
JoinMatchSave(r) ==
  /\ At(r, "jm_save")
  /\ IF req[r].matchId \in DOMAIN matches
       THEN /\ matches' = [matches EXCEPT ![req[r].matchId] = joinMatchWrite(@, req[r].players)]
            /\ verified' = verified \cup {<<"match", req[r].matchId, req[r].user>>}
       ELSE UNCHANGED <<matches, verified>>
  /\ \E out \in SaveOutcomes(matches, req[r].matchId) : Respond(r, req[r], out)
  /\ UNCHANGED <<games, teams, results, nextMatch, nextTeam, nextResult>>

\* ------------------------------------------------------------------ deleteMatch
\* DELETE api/matches/:id: Match.findOne, the not-found and host checks
DeleteMatchFindMatch(r) ==
  /\ Free(r)
  /\ \E u \in Users, id \in MatchIds :
       LET q == [Idle EXCEPT !.op = "deleteMatch", !.user = u, !.matchId = id]
       IN  IF id \notin DOMAIN matches
             THEN Respond(r, q, "NotFound")
           ELSE IF matches[id].host # u
             THEN Respond(r, q, "Unauthorized")
           ELSE Await(r, [q EXCEPT !.pc = "dm_remove"])
  /\ UNCHANGED <<store, nextMatch, nextTeam, nextResult, verified>>

\* match.remove()
DeleteMatchRemove(r) ==
  /\ At(r, "dm_remove")
  /\ matches' = Del(matches, {req[r].matchId})
  /\ Await(r, [req[r] EXCEPT !.pc = "dm_teams"])
  /\ UNCHANGED <<games, teams, results, nextMatch, nextTeam, nextResult, verified>>

\* Team.deleteMany({match: id}): the teams stored now that name the match
teamsOfMatch(id) == {t \in DOMAIN teams : teams[t].match = id}
DeleteMatchDeleteTeams(r) ==
  /\ At(r, "dm_teams")
  /\ teams' = Del(teams, teamsOfMatch(req[r].matchId))
  /\ Respond(r, req[r], "Ok")
  /\ UNCHANGED <<games, matches, results, nextMatch, nextTeam, nextResult, verified>>

\* ------------------------------------------------------------------ recordPlay
\* POST api/matches/:id/play: Match.findOne, the not-found and completed checks,
\* the item switch, findIndex and the xp added on the request's copy of players
RecordPlayFindMatch(r) ==
  /\ Free(r)
  /\ nextResult + Cardinality(InFlight("recordPlay", {"rp_result"})) <= MaxResults
  /\ \E id \in MatchIds, playerId \in Users, item \in Items :
       LET q == [Idle EXCEPT !.op = "recordPlay", !.matchId = id,
                             !.playerId = playerId, !.item = item]
       IN  IF id \notin DOMAIN matches
             THEN Respond(r, q, "NotFound")
           ELSE IF matches[id].isCompleted
             THEN Respond(r, q, "Conflict")
           ELSE IF ~validItem(item)
             THEN Respond(r, q, "InvalidArgument")
           ELSE IF findIndex(matches[id].players, playerId) < 0
             THEN Respond(r, q, "ServerError")
           ELSE LET index == findIndex(matches[id].players, playerId)
                IN  Await(r, [q EXCEPT !.pc = "rp_result", !.game = matches[id].game,
                                !.index = index,
                                !.players = [matches[id].players EXCEPT
                                               ![index + 1].xp = @ + pointsOf(item)]])
  /\ UNCHANGED <<store, nextMatch, nextTeam, nextResult, verified>>

\* helpers.createResult(players, matchId, gameId): a new Result holding the
\* list of {user, xp} it is given, for the match and the game
createResult(players, matchId, gameId) == [match |-> matchId, game |-> gameId, players |-> players]

\* await createResult(...): the Result is stored; match.result = result
RecordPlayCreateResult(r) ==
  /\ At(r, "rp_result")
  /\ results' = Put(results, nextResult, createResult(req[r].players, req[r].matchId, req[r].game))
  /\ nextResult' = nextResult + 1
  /\ Await(r, [req[r] EXCEPT !.pc = "rp_save", !.result = nextResult])
  /\ UNCHANGED <<games, matches, teams, nextMatch, nextTeam, verified>>

\* (a save that wrote the request's whole copy of the match, read before the
\* completed check passed, in place of the changed paths)
recordPlayWriteWhole(m, result, index, xp) ==
  [m EXCEPT !.result = result, !.players = setXpAt(m.players, index, xp), !.isCompleted = FALSE]

\* what match.save() of recordPlay writes on the stored match m: the result
\* path and the xp of the element the handler changed
recordPlayWrite(m, result, index, xp) ==
  [m EXCEPT !.result = result, !.players = setXpAt(m.players, index, xp)]

\* match.save()
RecordPlaySave(r) ==
  /\ At(r, "rp_save")
  /\ matches' = IF req[r].matchId \in DOMAIN matches
                  THEN [matches EXCEPT ![req[r].matchId] =
                          recordPlayWrite(@, req[r].result, req[r].index,
                                          req[r].players[req[r].index + 1].xp)]
                  ELSE matches
  /\ \E out \in SaveOutcomes(matches, req[r].matchId) : Respond(r, req[r], out)
  /\ UNCHANGED <<games, teams, results, nextMatch, nextTeam, nextResult, verified>>

\* ------------------------------------------------------------------ stopMatch
\* GET api/matches/:id/stop: Match.findOne, the not-found and completed checks
StopMatchFindMatch(r) ==
  /\ Free(r)
  /\ \E id \in MatchIds :
       LET q == [Idle EXCEPT !.op = "stopMatch", !.matchId = id]
       IN  IF id \notin DOMAIN matches
             THEN Respond(r, q, "NotFound")
           ELSE IF matches[id].isCompleted
             THEN Respond(r, q, "Conflict")
           ELSE Await(r, [q EXCEPT !.pc = "sm_result", !.result = matches[id].result,
                                   !.game = matches[id].game])
  /\ UNCHANGED <<store, nextMatch, nextTeam, nextResult, verified>>

\* Result.findOne of match.result; `const { players } = result` throws on null
StopMatchFindResult(r) ==
  /\ At(r, "sm_result")
  /\ IF req[r].result \notin DOMAIN results
       THEN Respond(r, req[r], "ServerError")
       ELSE Await(r, [req[r] EXCEPT !.pc = "sm_save", !.players = results[req[r].result].players])
  /\ UNCHANGED <<store, nextMatch, nextTeam, nextResult, verified>>

\* (a save that comes before `match.isCompleted = true`)
stopMatchWriteEarly(m) == m
\* what match.save() of stopMatch writes on the stored match m: the isCompleted path
stopMatchWrite(m) == [m EXCEPT !.isCompleted = TRUE]

\* match.isCompleted = true; match.save()
StopMatchSave(r) ==
  /\ At(r, "sm_save")
  /\ matches' = IF req[r].matchId \in DOMAIN matches
                  THEN [matches EXCEPT ![req[r].matchId] = stopMatchWrite(@)]
                  ELSE matches
  /\ \E out \in SaveOutcomes(matches, req[r].matchId) :
       IF out = "Ok" THEN Await(r, [req[r] EXCEPT !.pc = "sm_game"])
                     ELSE Respond(r, req[r], out)
  /\ UNCHANGED <<games, teams, results, nextMatch, nextTeam, nextResult, verified>>

\* one pass of the loop body up to its await: the roster entry of the snapshot's
\* i-th player (from 0) gets that player's xp added on the request's copy of the
\* game; find() gives undefined, and the += throws, when the roster has no such entry
creditAt(roster, players, i) ==
  LET k == findIndex(roster, players[i + 1].user)
  IN  [roster EXCEPT ![k + 1].xp = @ + players[i + 1].xp]
StopMatchLoop(r, roster, i) ==
  IF i >= Len(req[r].players)
    THEN Respond(r, req[r], "Ok")
  ELSE IF findIndex(roster, req[r].players[i + 1].user) < 0
    THEN Respond(r, req[r], "ServerError")
  ELSE Await(r, [req[r] EXCEPT !.pc = "sm_loop", !.i = i,
                   !.index = findIndex(roster, req[r].players[i + 1].user),
                   !.roster = creditAt(roster, req[r].players, i)])

\* Game.findOne of match.game, and the loop's first pass
StopMatchFindGame(r) ==
  /\ At(r, "sm_game")
  /\ IF req[r].game \notin DOMAIN games
       THEN Respond(r, req[r], "ServerError")
       ELSE StopMatchLoop(r, games[req[r].game], 0)
  /\ UNCHANGED <<store, nextMatch, nextTeam, nextResult, verified>>

\* game.save() inside the loop: the xp of the entry changed in this pass is
\* written; then i++ and the next pass
StopMatchSaveGame(r) ==
  /\ At(r, "sm_loop")
  /\ games' = [games EXCEPT ![req[r].game] =
                 setXpAt(@, req[r].index, req[r].roster[req[r].index + 1].xp)]
  /\ StopMatchLoop(r, req[r].roster, req[r].i + 1)
  /\ UNCHANGED <<matches, teams, results, nextMatch, nextTeam, nextResult, verified>>

\* ------------------------------------------------------------------ createTeam
\* POST api/teams: Game.findOne of the gameId of the request body
CreateTeamFindGame(r) ==
  /\ Free(r)
  /\ nextTeam + Cardinality(InFlight("createTeam", {"ct_match", "ct_hash", "ct_team"})) <= MaxTeams
  /\ \E u \in Users, matchId \in MatchIds, gameId \in GameIds, secret \in Secrets :
       LET q == [Idle EXCEPT !.op = "createTeam", !.user = u, !.matchId = matchId,
                             !.gameId = gameId, !.secret = secret]
       IN  IF gameId \notin DOMAIN games
             THEN Respond(r, q, "NotFound")
             ELSE Await(r, [q EXCEPT !.pc = "ct_match", !.roster = games[gameId]])
  /\ UNCHANGED <<store, nextMatch, nextTeam, nextResult, verified>>

\* Match.findOne of matchId, then the roster check on the game found before
CreateTeamFindMatch(r) ==
  /\ At(r, "ct_match")
  /\ IF req[r].matchId \notin DOMAIN matches
       THEN Respond(r, req[r], "NotFound")
     ELSE IF ~isInArray(req[r].roster, req[r].user)
       THEN Respond(r, req[r], "Forbidden")
     ELSE Await(r, [req[r] EXCEPT !.pc = "ct_hash", !.roster = <<>>,
                      !.players = matches[req[r].matchId].players,
                      !.teams = matches[req[r].matchId].teams])
  /\ UNCHANGED <<store, nextMatch, nextTeam, nextResult, verified>>

\* bcrypt.genSalt and bcrypt.hash of the team's secret; team.members.unshift
CreateTeamHash(r) ==
  /\ At(r, "ct_hash")
  /\ \E salt \in Salts :
       Await(r, [req[r] EXCEPT !.pc = "ct_team", !.hash = bcryptHash(req[r].secret, salt),
                   !.members = unshift(<<>>, [user |-> req[r].user])])
  /\ UNCHANGED <<store, nextMatch, nextTeam, nextResult, verified>>

\* new Team({name, match, owner, game, secret}) as team.save() stores it
newTeam(match, owner, game, hash, members) ==
  [match |-> match, owner |-> owner, game |-> game, secret |-> hash, members |-> members]

\* the players of the request's copy of the match after
\* `if (!isInArray(match.players, id)) match.players.unshift({user: id})`
addOwner(players, owner) ==
  IF ~isInArray(players, owner) THEN unshift(players, [user |-> owner, xp |-> 0]) ELSE players

\* team.save(): the new team is inserted; then the owner and the team are put
\* on the request's copy of the match
CreateTeamSaveTeam(r) ==
  /\ At(r, "ct_team")
  /\ teams' = Put(teams, nextTeam,
                  newTeam(req[r].matchId, req[r].user, req[r].gameId, req[r].hash, req[r].members))
  /\ nextTeam' = nextTeam + 1
  /\ Await(r, [req[r] EXCEPT !.pc = "ct_save", !.teamId = nextTeam, !.members = <<>>,
                 !.modified = ~isInArray(req[r].players, req[r].user),
                 !.players = addOwner(req[r].players, req[r].user),
                 !.teams = unshift(req[r].teams, nextTeam)])
  /\ UNCHANGED <<games, matches, results, nextMatch, nextResult, verified>>

\* what match.save() of createTeam writes on the stored match m: the teams
\* path, and the players path when the owner was added
createTeamWrite(m, players, modified, teamList) ==
  [m EXCEPT !.teams = teamList, !.players = IF modified THEN players ELSE @]

\* match.save()
CreateTeamSaveMatch(r) ==
  /\ At(r, "ct_save")
  /\ matches' = IF req[r].matchId \in DOMAIN matches
                  THEN [matches EXCEPT ![req[r].matchId] =
                          createTeamWrite(@, req[r].players, req[r].modified, req[r].teams)]
                  ELSE matches
  /\ \E out \in SaveOutcomes(matches, req[r].matchId) : Respond(r, req[r], out)
  /\ UNCHANGED <<games, teams, results, nextMatch, nextTeam, nextResult, verified>>

\* ------------------------------------------------------------------ joinTeam
\* POST api/teams/:teamId: Team.findOne and the not-found check
JoinTeamFindTeam(r) ==
  /\ Free(r)
  /\ \E u \in Users, id \in TeamIds, secret \in Secrets :
       LET q == [Idle EXCEPT !.op = "joinTeam", !.user = u, !.teamId = id, !.secret = secret]
       IN  IF id \notin DOMAIN teams
             THEN Respond(r, q, "NotFound")
             ELSE Await(r, [q EXCEPT !.pc = "jt_match", !.matchId = teams[id].match,
                                     !.members = teams[id].members,
                                     !.hash = teams[id].secret])
  /\ UNCHANGED <<store, nextMatch, nextTeam, nextResult, verified>>

\* Match.findOne of team.match (match.players throws on null), the
\* player-of-the-match check and the already-a-member check
JoinTeamFindMatch(r) ==
  /\ At(r, "jt_match")
  /\ IF req[r].matchId \notin DOMAIN matches
       THEN Respond(r, req[r], "ServerError")
     ELSE IF ~isInArray(matches[req[r].matchId].players, req[r].user)
       THEN Respond(r, req[r], "Forbidden")
     ELSE IF isInArray(req[r].members, req[r].user)
       THEN Respond(r, req[r], "Conflict")
     ELSE Await(r, [req[r] EXCEPT !.pc = "jt_compare"])
  /\ UNCHANGED <<store, nextMatch, nextTeam, nextResult, verified>>

\* bcrypt.compare of the supplied secret with the team's hash, then the unshift
JoinTeamCompare(r) ==
  /\ At(r, "jt_compare")
  /\ IF ~bcryptCompare(req[r].secret, req[r].hash)
       THEN Respond(r, req[r], "Unauthorized")
       ELSE Await(r, [req[r] EXCEPT !.pc = "jt_save",
                        !.members = unshift(req[r].members, [user |-> req[r].user])])
  /\ UNCHANGED <<store, nextMatch, nextTeam, nextResult, verified>>

\* what team.save() of joinTeam writes on the stored team t: the members
\* path, whole, as the request's copy has it after the unshift
joinTeamWrite(t, members) == [t EXCEPT !.members = members]

\* team.save()
JoinTeamSave(r) ==
  /\ At(r, "jt_save")
  /\ IF req[r].teamId \in DOMAIN teams
       THEN /\ teams' = [teams EXCEPT ![req[r].teamId] = joinTeamWrite(@, req[r].members)]
            /\ verified' = verified \cup {<<"team", req[r].teamId, req[r].user>>}
       ELSE UNCHANGED <<teams, verified>>
  /\ \E out \in SaveOutcomes(teams, req[r].teamId) : Respond(r, req[r], out)
  /\ UNCHANGED <<games, matches, results, nextMatch, nextTeam, nextResult>>

\* ------------------------------------------------------------------ deleteTeam
\* (a deleteTeam whose first slice has no owner check)
DeleteTeamFindTeamAnyUser(r) ==
  /\ Free(r)
  /\ \E u \in Users, id \in TeamIds :
       LET q == [Idle EXCEPT !.op = "deleteTeam", !.user = u, !.teamId = id]
       IN  IF id \notin DOMAIN teams
             THEN Respond(r, q, "NotFound")
             ELSE Await(r, [q EXCEPT !.pc = "dt_remove"])
  /\ UNCHANGED <<store, nextMatch, nextTeam, nextResult, verified>>
\* DELETE api/teams/:id: Team.findOne, the not-found and owner checks
DeleteTeamFindTeam(r) ==
  /\ Free(r)
  /\ \E u \in Users, id \in TeamIds :
       LET q == [Idle EXCEPT !.op = "deleteTeam", !.user = u, !.teamId = id]
       IN  IF id \notin DOMAIN teams
             THEN Respond(r, q, "NotFound")
           ELSE IF teams[id].owner # u
             THEN Respond(r, q, "Unauthorized")
           ELSE Await(r, [q EXCEPT !.pc = "dt_remove"])
  /\ UNCHANGED <<store, nextMatch, nextTeam, nextResult, verified>>

\* team.remove()
DeleteTeamRemove(r) ==
  /\ At(r, "dt_remove")
  /\ teams' = Del(teams, {req[r].teamId})
  /\ Await(r, [req[r] EXCEPT !.pc = "dt_match"])
  /\ UNCHANGED <<games, matches, results, nextMatch, nextTeam, nextResult, verified>>

\* Match.findOne({teams: {_id: id}}): a match whose teams list holds the id
\* (match.teams throws on null); the id is taken off the request's copy of the list
matchesHolding(id) ==
  {m \in DOMAIN matches : \E k \in 1..Len(matches[m].teams) : matches[m].teams[k] = id}
removeTeam(teamList, id) == splice(teamList, indexOf(teamList, id))
DeleteTeamFindMatch(r) ==
  /\ At(r, "dt_match")
  /\ IF matchesHolding(req[r].teamId) = {}
       THEN Respond(r, req[r], "ServerError")
       ELSE \E m \in matchesHolding(req[r].teamId) :
              Await(r, [req[r] EXCEPT !.pc = "dt_save", !.matchId = m,
                          !.teams = removeTeam(matches[m].teams, req[r].teamId)])
  /\ UNCHANGED <<store, nextMatch, nextTeam, nextResult, verified>>

\* match.save(): the teams path is written
DeleteTeamSaveMatch(r) ==
  /\ At(r, "dt_save")
  /\ matches' = IF req[r].matchId \in DOMAIN matches
                  THEN [matches EXCEPT ![req[r].matchId].teams = req[r].teams]
                  ELSE matches
  /\ \E out \in SaveOutcomes(matches, req[r].matchId) : Respond(r, req[r], out)
  /\ UNCHANGED <<games, teams, results, nextMatch, nextTeam, nextResult, verified>>

\* ------------------------------------------------------------------ specification
\* res.json / res.status().send: the response leaves the server
Deliver ==
  /\ sent # NoResponse
  /\ sent' = NoResponse
  /\ UNCHANGED <<store, nextMatch, nextTeam, nextResult, req, calls, verified>>

Next ==
  \/ Deliver
  \/ \E r \in Reqs :
      \/ CreateMatchFindGame(r)
      \/ CreateMatchHash(r)
      \/ CreateMatchSave(r)
      \/ JoinMatchFindMatch(r)
      \/ JoinMatchFindGame(r)
      \/ JoinMatchCompare(r)
      \/ JoinMatchSave(r)
      \/ DeleteMatchFindMatch(r)
      \/ DeleteMatchRemove(r)
      \/ DeleteMatchDeleteTeams(r)
      \/ RecordPlayFindMatch(r)
      \/ RecordPlayCreateResult(r)
      \/ RecordPlaySave(r)
      \/ StopMatchFindMatch(r)
      \/ StopMatchFindResult(r)
      \/ StopMatchSave(r)
      \/ StopMatchFindGame(r)
      \/ StopMatchSaveGame(r)
      \/ CreateTeamFindGame(r)
      \/ CreateTeamFindMatch(r)
      \/ CreateTeamHash(r)
      \/ CreateTeamSaveTeam(r)
      \/ CreateTeamSaveMatch(r)
      \/ JoinTeamFindTeam(r)
      \/ JoinTeamFindMatch(r)
      \/ JoinTeamCompare(r)
      \/ JoinTeamSave(r)
      \/ DeleteTeamFindTeam(r)
      \/ DeleteTeamRemove(r)
      \/ DeleteTeamFindMatch(r)
      \/ DeleteTeamSaveMatch(r)

Spec == Init /\ [][Next]_vars

\* The store may also hold, at the start, the match that these calls leave:
\* createMatch by u2 for g2 with secret s1, createTeam by u1 on that match with
\* gameId g1 and secret s1, joinMatch by u2.  Its players are u2, who is in
\* the roster of g2, and then u1, who is not.
CrossGameMatch ==
  [host |-> "u2", game |-> "g2", teams |-> <<1>>,
   players |-> <<[user |-> "u2", xp |-> 0], [user |-> "u1", xp |-> 0]>>,
   secret |-> bcryptHash("s1", 1), isCompleted |-> FALSE, result |-> 0]
CrossGameTeam == newTeam(1, "u1", "g1", bcryptHash("s1", 1), <<[user |-> "u1"]>>)
InitCrossGame ==
  /\ games = InitGames
  /\ matches = Put(Empty, 1, CrossGameMatch)
  /\ teams = Put(Empty, 1, CrossGameTeam)
  /\ results = Empty
  /\ nextMatch = 2
  /\ nextTeam = 2
  /\ nextResult = 1
  /\ verified = {<<"match", 1, "u2">>}
  /\ req = [r \in Reqs |-> Idle]
  /\ calls = 0
  /\ sent = NoResponse

SpecCrossGame == (Init \/ InitCrossGame) /\ [][Next]_vars

\* ------------------------------------------------------------------ claims
\* the users of an embedded list, and the roster of the game of a stored match
usersOf(arr) == {arr[k].user : k \in 1..Len(arr)} \cap Users
rosterOf(m) == usersOf(games[matches[m].game])
\* the step is the first slice of a request of kind op on the match m that is
\* refused at once / that is taken up
RefusedAtOnce(op, m) == req' = req /\ sent' # NoResponse /\ sent'.op = op /\ sent'.q.matchId = m
TakenUp(op, m) ==
  \E r \in Reqs : req[r].pc = "idle" /\ req'[r].pc # "idle" /\ req'[r].op = op /\ req'[r].matchId = m

\* C1: a user who is not in the roster of a game cannot create a match for it,
\* join a match of it or create a team on a match of it: the request is
\* answered Forbidden and the store is as it was before the answering step.
\* (createTeam is taken with a gameId that exists; it names a stored match.)
C1_Outsider(q) ==
  \/ q.op = "createMatch" /\ q.gameId \in Games /\ q.user \notin usersOf(games[q.gameId])
  \/ /\ q.op \in {"joinMatch", "createTeam"}
     /\ q.op = "createTeam" => q.gameId \in Games
     /\ q.matchId \in DOMAIN matches
     /\ q.user \notin rosterOf(q.matchId)
C1_OutsiderForbidden ==
  [][(sent' # NoResponse /\ C1_Outsider(sent'.q)) => (sent'.resp = "Forbidden" /\ UNCHANGED store)]_vars

\* C2: a stored match that is completed stays completed as long as it is
\* stored, whichever save comes later; and a recordPlay or stopMatch that
\* starts on a completed match is refused at once with Conflict.
C2_CompletedStays ==
  [][\A m \in DOMAIN matches :
       matches[m].isCompleted =>
         /\ m \in DOMAIN matches' => matches'[m].isCompleted
         /\ \A op \in {"recordPlay", "stopMatch"} :
              /\ ~TakenUp(op, m)
              /\ RefusedAtOnce(op, m) => sent'.resp = "Conflict"]_vars
\* a recordPlay that read the match before it was completed has saved it after
C2_Witness ==
  /\ sent.op = "recordPlay" /\ sent.resp = "Ok"
  /\ sent.q.matchId \in DOMAIN matches
  /\ matches[sent.q.matchId].isCompleted
  /\ matches[sent.q.matchId].result = nextResult - 1
\* C3: no user is twice in the players of a match or in the members of a team.
NoDuplicate(arr) == \A j, k \in 1..Len(arr) : (arr[j].user = arr[k].user /\ arr[j].user \in Users) => j = k
C3_NoDuplicateUser ==
  /\ \A m \in DOMAIN matches : NoDuplicate(matches[m].players)
  /\ \A t \in DOMAIN teams : NoDuplicate(teams[t].members)
\* a joinMatch passed its already-a-player check and is about to save, and the
\* stored list has got that user meanwhile from a createTeam that interleaved
C3_Witness ==
  \E r \in Reqs :
    /\ req[r].pc = "jm_save"
    /\ req[r].matchId \in DOMAIN matches
    /\ isInArray(matches[req[r].matchId].players, req[r].user)
    /\ \E t \in DOMAIN teams : teams[t].match = req[r].matchId /\ teams[t].owner = req[r].user

\* C4: a joinMatch by a user who is in the players the request read, and a
\* joinTeam by a user who is in the members the request read (the team's match
\* being stored), is answered Conflict, whatever secret it carries, and the
\* answering step leaves the store as it was.
C4_Rejoins(r) ==
  \/ req[r].pc = "jm_game" /\ isInArray(req[r].players, req[r].user)
  \/ /\ req[r].pc = "jt_match" /\ isInArray(req[r].members, req[r].user)
     /\ req[r].matchId \in DOMAIN matches
C4_RejoinConflict ==
  [][\A r \in Reqs : (C4_Rejoins(r) /\ req'[r] # req[r]) =>
        (sent'.resp = "Conflict" /\ UNCHANGED store)]_vars

\* C5: every user in the players of a match has joined it with a secret that
\* compared equal to the match's hash, and every member of a team but its owner
\* has joined it with a secret that compared equal to the team's hash; a join
\* whose comparison fails is answered Unauthorized and writes nothing.
C5_Granted ==
  /\ \A m \in DOMAIN matches : \A u \in usersOf(matches[m].players) : <<"match", m, u>> \in verified
  /\ \A t \in DOMAIN teams : \A u \in usersOf(teams[t].members) \ {teams[t].owner} :
       <<"team", t, u>> \in verified
C5_OnlyByComparison ==
  [][/\ C5_Granted'
     /\ \A r \in Reqs :
          (req[r].pc \in {"jm_compare", "jt_compare"} /\ req'[r] # req[r]
             /\ ~bcryptCompare(req[r].secret, req[r].hash))
          => (sent'.resp = "Unauthorized" /\ UNCHANGED store)]_vars

\* C6: every user in the players of a stored match is in the roster of the
\* match's own game.
C6_PlayersInRoster ==
  \A m \in DOMAIN matches : usersOf(matches[m].players) \subseteq rosterOf(m)

\* C7: every member of a stored team is a player of the team's match, as long
\* as that match is stored.
C7_MembersArePlayers ==
  \A t \in DOMAIN teams :
    teams[t].match \in DOMAIN matches =>
      usersOf(teams[t].members) \subseteq usersOf(matches[teams[t].match].players)

\* C8 as stated: a recordPlay on a stored match with an item kind other than
\* dot, fruit or ghost in any case of letters is answered InvalidArgument.
InvalidKinds == {"pill"}
C8_InvalidKindAnswer ==
  (sent.op = "recordPlay" /\ sent.q.item \in InvalidKinds /\ sent.q.matchId \in DOMAIN matches)
    => sent.resp = "InvalidArgument"
\* C8 as amended: a recordPlay with such an item kind on a stored match that is
\* not completed is answered InvalidArgument, on a completed match Conflict;
\* InvalidArgument is the answer to no other item kind; and in every case the
\* request ends in its first slice: it writes nothing, so no Result is made,
\* no result reference and no xp changes.
C8_InvalidKindNoScore ==
  [][/\ \A r \in Reqs : req'[r].op = "recordPlay" => req'[r].item \notin InvalidKinds
     /\ (sent' # NoResponse /\ sent'.op = "recordPlay") =>
          /\ sent'.q.item \in InvalidKinds =>
               /\ UNCHANGED <<store, nextResult>>
               /\ sent'.q.matchId \in DOMAIN matches =>
                    sent'.resp = IF matches[sent'.q.matchId].isCompleted
                                   THEN "Conflict" ELSE "InvalidArgument"
          /\ sent'.resp = "InvalidArgument" => sent'.q.item \in InvalidKinds]_vars
\* a recordPlay with an invalid kind is being refused on a match that has a score
C8_Witness ==
  /\ sent.op = "recordPlay" /\ sent.resp = "InvalidArgument"
  /\ sent.q.matchId \in DOMAIN matches
  /\ matches[sent.q.matchId].result \in DOMAIN results

\* C9: a stored team names a match that is not stored only while the
\* deleteMatch of that match has not yet come to its deleteMany: once a
\* deleteMatch has answered, no stored team names the deleted match.
C9_NoTeamOfDeletedMatch ==
  \A t \in DOMAIN teams :
    teams[t].match \notin DOMAIN matches =>
      \E r \in Reqs : req[r].pc = "dm_teams" /\ req[r].matchId = teams[t].match

\* C10: when deleteTeam answers Ok the team's id is in no match's teams list,
\* its save takes nothing but that id off the stored list, and a teams list
\* holds the id of a team that is not stored only while the deleteTeam of that
\* team is between its remove and its save.
without(teamList, id) == LET keep(x) == x # id IN SelectSeq(teamList, keep)
C10_ListsHoldStoredTeams ==
  \A m \in DOMAIN matches : \A k \in 1..Len(matches[m].teams) :
    matches[m].teams[k] \notin DOMAIN teams =>
      \E r \in Reqs : req[r].pc \in {"dt_match", "dt_save"} /\ req[r].teamId = matches[m].teams[k]
C10_DeleteTeamUnlinks ==
  [][/\ C10_ListsHoldStoredTeams'
     /\ \A r \in Reqs :
          (req[r].pc = "dt_save" /\ req'[r] # req[r] /\ sent'.resp = "Ok"
             /\ req[r].matchId \in DOMAIN matches)
          => matches'[req[r].matchId].teams = without(matches[req[r].matchId].teams, req[r].teamId)]_vars

\* C11: a deleteMatch of a stored match by a user who is not its host, and a
\* deleteTeam of a stored team by a user who is not its owner, is answered
\* Unauthorized in its first slice and the store is left as it was: the match,
\* its teams and the match's teams list are unchanged; no such request gets as
\* far as a remove.
C11_NotOwner(q) ==
  \/ q.op = "deleteMatch" /\ q.matchId \in DOMAIN matches /\ matches[q.matchId].host # q.user
  \/ q.op = "deleteTeam" /\ q.teamId \in DOMAIN teams /\ teams[q.teamId].owner # q.user
C11_NotOwnerRefused ==
  [][/\ (sent' # NoResponse /\ C11_NotOwner(sent'.q)) =>
          (sent'.resp = "Unauthorized" /\ req' = req /\ UNCHANGED store)
     /\ \A r \in Reqs : (req[r].pc = "idle" /\ req'[r].pc # "idle") => ~C11_NotOwner(req'[r])]_vars
\* a deleteTeam by a user who is not the owner is being refused, the team being
\* stored and on the teams list of its match
C11_Witness ==
  /\ sent.op = "deleteTeam" /\ sent.resp = "Unauthorized"
  /\ sent.q.teamId \in DOMAIN teams
  /\ teams[sent.q.teamId].owner # sent.q.user
  /\ matchesHolding(sent.q.teamId) # {}

\* C12: a stopMatch that answers Ok has left the match completed, and each of
\* its game saves raises the stored roster xp of the snapshot player of that
\* pass by exactly that player's snapshot xp and leaves every other roster
\* entry as it was (the loop makes one pass for each snapshot player).
C12_StopCredits ==
  [][/\ (sent' # NoResponse /\ sent'.op = "stopMatch" /\ sent'.resp = "Ok"
           /\ sent'.q.matchId \in DOMAIN matches') => matches'[sent'.q.matchId].isCompleted
     /\ \A r \in Reqs :
          (req[r].pc = "sm_loop" /\ req'[r] # req[r]) =>
            LET g == req[r].game
                p == req[r].players[req[r].i + 1]
            IN  /\ Len(games'[g]) = Len(games[g])
                /\ \A k \in 1..Len(games[g]) :
                     /\ games'[g][k].user = games[g][k].user
                     /\ games'[g][k].xp =
                          games[g][k].xp + (IF games[g][k].user = p.user THEN p.xp ELSE 0)]_vars

\* C13: a stopMatch that found its match stored, not completed and without a
\* result reference is answered NotFound when its Result.findOne returns, and
\* that step leaves the store as it was: isCompleted stays false and no roster
\* xp changes.
C13_StopWithoutResult ==
  [][\A r \in Reqs :
       (req[r].pc = "sm_result" /\ req[r].result \notin ResultIds /\ req'[r] # req[r]) =>
         (sent'.resp = "NotFound" /\ UNCHANGED store)]_vars

\* C14: when a recordPlay on a stored, not completed match answers Ok, its
\* save leaves the match referring to the Result this call created, raises the
\* stored xp of the named player by the points of the item (dot 10, fruit 50,
\* ghost 300) and changes no other player's xp, and the Result holds for every
\* player the xp the match now stores; so the referenced Result holds, player
\* by player, the sum of the points of the plays recorded so far, 0 without plays.
C14_PlaysAddUp ==
  [][\A r \in Reqs :
       (req[r].pc = "rp_save" /\ req'[r] # req[r] /\ sent'.resp = "Ok"
          /\ req[r].matchId \in DOMAIN matches /\ ~matches[req[r].matchId].isCompleted)
       => LET m == req[r].matchId
              old == matches[m].players
              new == matches'[m].players
          IN  /\ matches'[m].result = req[r].result
              /\ Len(new) = Len(old)
              /\ \A k \in 1..Len(old) :
                   /\ new[k].user = old[k].user
                   /\ new[k].xp = old[k].xp +
                        (IF old[k].user = req[r].playerId THEN pointsOf(req[r].item) ELSE 0)
              /\ results[req[r].result].players = new]_vars

\* C15: a recordPlay with a valid item kind on a stored, not completed match
\* whose players do not hold the playerId ends in its first slice with an
\* error answer (the failure of players[-1].xp, answered 500): no Result is
\* created, the match keeps its result reference and no xp changes; no such
\* request gets as far as createResult.
C15_Absent(q) ==
  /\ q.op = "recordPlay" /\ validItem(q.item)
  /\ q.matchId \in DOMAIN matches /\ ~matches[q.matchId].isCompleted
  /\ ~isInArray(matches[q.matchId].players, q.playerId)
C15_AbsentPlayerFails ==
  [][/\ (sent' # NoResponse /\ req' = req /\ C15_Absent(sent'.q)) =>
          (sent'.resp = "ServerError" /\ UNCHANGED <<store, nextResult>>)
     /\ \A r \in Reqs : (req[r].pc = "idle" /\ req'[r].pc # "idle") => ~C15_Absent(req'[r])]_vars
\* such a recordPlay is being refused on a match that has another player
C15_Witness ==
  /\ sent.op = "recordPlay" /\ sent.resp = "ServerError"
  /\ C15_Absent(sent.q)
  /\ matches[sent.q.matchId].players # <<>>

\* C16: when the crediting of a stopMatch fails (a snapshot player has no
\* entry in the game's roster), nothing is rolled back: the failing step
\* writes nothing but the credit of the pass before it, which stays in the
\* roster, the request ends there and credits no further player, the match,
\* if stored, is completed, and from then on no stopMatch on it is taken up:
\* each is answered Conflict and changes nothing.
C16_CreditFails(r) ==
  /\ req[r].pc \in {"sm_game", "sm_loop"}
  /\ req'[r] # req[r]
  /\ sent'.resp = "ServerError"
C16_NoRollback ==
  [][/\ \A r \in Reqs :
          C16_CreditFails(r) =>
            /\ req'[r].pc = "idle"
            /\ UNCHANGED <<matches, teams, results>>
            /\ req[r].matchId \in DOMAIN matches => matches[req[r].matchId].isCompleted
            /\ \A g \in Games : \A k \in 1..Len(games[g]) :
                 games'[g][k] =
                   IF req[r].pc = "sm_loop" /\ g = req[r].game /\ k = req[r].index + 1
                     THEN req[r].roster[k]
                     ELSE games[g][k]
     /\ \A m \in DOMAIN matches :
          matches[m].isCompleted =>
            /\ ~TakenUp("stopMatch", m)
            /\ RefusedAtOnce("stopMatch", m) => (sent'.resp = "Conflict" /\ UNCHANGED store)]_vars
\* a stopMatch is answering its failure after it has credited one snapshot
\* player and not the one that comes after
C16_Witness ==
  /\ sent.op = "stopMatch" /\ sent.resp = "ServerError"
  /\ sent.q.matchId \in DOMAIN matches
  /\ LET m == matches[sent.q.matchId]
     IN  /\ m.isCompleted
         /\ m.result \in DOMAIN results
         /\ \E k \in 1..Len(games[m.game]) : games[m.game][k].xp > 0
         /\ \E k \in 1..Len(results[m.result].players) :
              ~isInArray(games[m.game], results[m.result].players[k].user)

\* C17: the save of a joinMatch puts the list the request read, with its own
\* user in front, in the place of the stored list and answers success, also
\* when another join was saved since the read: the users that join added are
\* then no longer players.  So two joinMatch requests by two users of the
\* game's roster on one match can both answer success and leave only one of
\* the two users in the stored list (the witness).
C17_StaleListWins ==
  [][\A r \in Reqs :
       (req[r].pc = "jm_save" /\ req'[r] # req[r] /\ req[r].matchId \in DOMAIN matches) =>
         /\ sent'.resp = "Ok"
         /\ usersOf(matches'[req[r].matchId].players) = usersOf(req[r].players)
         /\ usersOf(matches[req[r].matchId].players) \ usersOf(req[r].players)
              \subseteq Users \ usersOf(matches'[req[r].matchId].players)]_vars
\* both users' joins have been saved and answered with success, no team was
\* ever created, and the player list holds only the user whose save came last
C17_LostUpdate ==
  /\ sent.op = "joinMatch" /\ sent.resp = "Ok"
  /\ sent.q.matchId \in DOMAIN matches
  /\ nextTeam = 1
  /\ \A u \in Users : <<"match", sent.q.matchId, u>> \in verified
  /\ Users \subseteq rosterOf(sent.q.matchId)
  /\ usersOf(matches[sent.q.matchId].players) = {sent.q.user}

\* C18: the result of a match is folded into the roster of its game at most
\* once: a roster entry never holds more xp than some Result of a match of the
\* game records for that user (every roster starts at xp 0 and a game has at
\* most MaxMatches matches, so the xp of an entry is what stopMatch requests
\* have added to it).
C18_FoldedOnce ==
  \A g \in Games : \A k \in 1..Len(games[g]) :
    \/ games[g][k].xp = 0
    \/ \E id \in DOMAIN results :
         /\ results[id].game = g
         /\ \E j \in 1..Len(results[id].players) :
              /\ results[id].players[j].user = games[g][k].user
              /\ games[g][k].xp <= results[id].players[j].xp

\* C19: once a stored match is completed its result is final: no step changes
\* its result reference and no step stores a new Result for it, also not a
\* step of a recordPlay that read the match before it was completed.
C19_ResultFinal ==
  [][\A m \in DOMAIN matches :
       matches[m].isCompleted =>
         /\ m \in DOMAIN matches' => matches'[m].result = matches[m].result
         /\ \A id \in DOMAIN results' : results'[id].match = m => id \in DOMAIN results]_vars

====
